---- MODULE Spec2Model ----
(***************************************************************************)
(* Model of the tracking layer of logger_decorator.py (class               *)
(* LoggerDecorator) and of the well seeding done by the protocol script    *)
(* "Aptamer DE pt 1.py" (update_well_tracking).                            *)
(*                                                                         *)
(* Volumes are integers (microlitres).  Flow rates and rate multipliers    *)
(* are integers in hundredths (756 is 7.56 uL/s, 200 is the multiplier     *)
(* 2.0), so that the two-decimal formatting of the log text is exact.      *)
(* An optional Python value (None or a value) is a sequence of length 0    *)
(* or 1.                                                                   *)
(***************************************************************************)
EXTENDS Integers, Sequences, FiniteSets, TLC

VARIABLES
  logs,            \* self.logs: the entries appended by log_action / log_error
  well_volumes,    \* self.well_volumes: dict key -> volume
  well_capacity,   \* self.well_capacity: dict key -> capacity
  tip_usage,       \* self.tip_usage: dict tip type -> count
  flow_rates,      \* self.flow_rates: dict tip type -> the three rates
  rate_property,   \* the class-level LoggedFlowRateProperty descriptors
  wrapped,         \* the attributes (handle, name) that now hold a wrapper
  wrappedHandles,  \* the handles given to wrap_instrument / wrap_module
  pc,              \* "idle", or "paused" inside input() of log_error
                   \* ("paused_outer": of the outer wrapper of two)
  calls,           \* history of the calls the script issued, with outcomes
  rewrapped,       \* the attributes that hold a wrapper of a wrapper
  faulty,          \* the device raises in its next real operation
  assigns,         \* history of the script's flow rate assignments
  seeding          \* the last update_well_tracking call, if any

vars == <<logs, well_volumes, well_capacity, tip_usage, flow_rates,
          rate_property, wrapped, wrappedHandles, pc, calls,
          rewrapped, faulty, assigns, seeding>>

\* Bounds of the model: the number of calls the driving script issues, and
\* the number of its flow rate assignments.
MaxCalls == 3
MaxAssigns == 2

(***************************************************************************)
(* Python values                                                           *)
(***************************************************************************)
None == <<>>
Some(v) == <<v>>
NoWell == [lw |-> "", name |-> ""]
Num(n) == [t |-> "num", i |-> n, w |-> NoWell]
WellV(w) == [t |-> "well", i |-> 0, w |-> w]
\* well.bottom(z): a Location (point, labware); it has neither display_name
\* nor parent, and its text contains "point=".
PointV(w) == [t |-> "point", i |-> 0, w |-> w]
\* a value that is no number and has no well identity: a str
StrV == [t |-> "str", i |-> 0, w |-> NoWell]

Min(a, b) == IF a < b THEN a ELSE b
Max(a, b) == IF a > b THEN a ELSE b

EmptyMap == [x \in {} |-> 0]
Get(d, k, default) == IF k \in DOMAIN d THEN d[k] ELSE default
Put(d, k, v) == [x \in (DOMAIN d) \cup {k} |-> IF x = k THEN v ELSE d[x]]

\* a call's arguments: the positional tuple and the keyword dict
Pos(args) == [args |-> args, kwargs |-> EmptyMap]
Kw(args, name, v) == [args |-> args, kwargs |-> [x \in {name} |-> v]]
Kws(args, kwargs) == [args |-> args, kwargs |-> kwargs]
\* kwargs.get(name, args[i] if len(args) > i else None); i counts from 0
KwOrArg(a, name, i) ==
  IF name \in DOMAIN a.kwargs THEN Some(a.kwargs[name])
  ELSE IF Len(a.args) > i THEN Some(a.args[i + 1]) ELSE None
KwOnly(a, name) == IF name \in DOMAIN a.kwargs THEN Some(a.kwargs[name]) ELSE None

IsNum(opt) == opt # None /\ opt[1].t = "num"
\* Python truth value of an optional argument ("if source:")
Truthy(opt) == opt # None /\ (opt[1].t = "num" => opt[1].i # 0)

(***************************************************************************)
(* The handles of the run: two pipettes and a module                       *)
(***************************************************************************)
Instruments == {"p20", "p300"}
Modules == {"tc_mod"}
NoSelf == "none"
RateKinds == {"aspirate", "dispense", "blow_out"}

\* pipettes as load_instrument can also return them: "bare" loaded with
\* tip_racks=[], "custom" with a rack whose load name is "custom_96l_xlul"
Pipettes == Instruments \cup {"bare", "custom"}

\* protocol.load_instrument(..., tip_racks=[...]); load_module takes none:
\* a module handle has no tip_racks attribute.
HasTipRacks(h) == h \in Pipettes

\* load_name of the first tip rack, split at "_" into parts of characters;
\* no part at all when tip_racks is empty (line 231 is false)
TipRackParts(h) ==
  IF h = "p20"
  THEN << <<"o","p","e","n","t","r","o","n","s">>, <<"9","6">>,
          <<"t","i","p","r","a","c","k">>, <<"2","0","u","l">> >>
  ELSE IF h = "bare" THEN << >>
  ELSE IF h = "custom"
  THEN << <<"c","u","s","t","o","m">>, <<"9","6","l">>, <<"x","l","u","l">> >>
  ELSE << <<"o","p","e","n","t","r","o","n","s">>, <<"9","6">>,
          <<"t","i","p","r","a","c","k">>, <<"3","0","0","u","l">> >>

\* the nominal rates of the device, hundredths of uL/s
NominalRate(h) ==
  IF h = "p20" THEN [aspirate |-> 756, dispense |-> 757, blow_out |-> 758]
  ELSE [aspirate |-> 9286, dispense |-> 9287, blow_out |-> 9288]

\* the attributes of a module that wrap_module probes with hasattr
ModuleOps(m) ==
  {"set_block_temperature", "set_lid_temperature", "close_lid", "open_lid"}

\* the result of the real (device) operation: the driver's own value
RealResult(f, a) == [by |-> f.self, op |-> f.name]

(***************************************************************************)
(* get_dynamic_tip_type                                                    *)
(***************************************************************************)
DigitOf == [c \in {"0","1","2","3","4","5","6","7","8","9"} |->
              CASE c = "0" -> 0 [] c = "1" -> 1 [] c = "2" -> 2 [] c = "3" -> 3
                [] c = "4" -> 4 [] c = "5" -> 5 [] c = "6" -> 6 [] c = "7" -> 7
                [] c = "8" -> 8 [] c = "9" -> 9]

\* a test of the last character alone
EndsWithL(part) == Len(part) >= 2 /\ part[Len(part)] = "l"
\* part.endswith('ul')
EndsWithUl(part) ==
  Len(part) >= 2 /\ part[Len(part) - 1] = "u" /\ part[Len(part)] = "l"

\* int(text) succeeds
IsInt(cs) == Len(cs) > 0 /\ \A i \in 1..Len(cs) : cs[i] \in DOMAIN DigitOf

RECURSIVE IntOf(_)
IntOf(cs) ==
  IF cs = <<>> THEN 0
  ELSE IntOf(SubSeq(cs, 1, Len(cs) - 1)) * 10 + DigitOf[cs[Len(cs)]]

UnknownTipType == [kind |-> "unknown tip type", n |-> 0]
NoTip == [kind |-> "", n |-> 0]

RECURSIVE FirstVolumeClass(_)
FirstVolumeClass(parts) ==
  IF parts = <<>> THEN UnknownTipType
  ELSE LET part == Head(parts)
           body == SubSeq(part, 1, Len(part) - 2)
       IN IF EndsWithUl(part) /\ IsInt(body)
          THEN [kind |-> "p", n |-> IntOf(body)]
          ELSE FirstVolumeClass(Tail(parts))

get_dynamic_tip_type(h) == FirstVolumeClass(TipRackParts(h))

(***************************************************************************)
(* Wells, locations and ledger keys                                        *)
(***************************************************************************)
Labwares == {"plate"}
WellNames == {"A1", "B1"}
Wells == [lw : Labwares, name : WellNames]

\* well.display_name, as the words between blanks: "A1 of plate"
DisplayName(w) == <<w.name, "of", w.lw>>

\* the key update_well_tracking writes: the Well object itself
WellObjectKey(w) == [kind |-> "Well", name |-> DisplayName(w), parent |-> w.lw]

\* track_volume.well_key: (display_name or "unknown", parent or None)
well_key(v) ==
  IF v.t = "well"
  THEN [kind |-> "tuple", name |-> DisplayName(v.w), parent |-> v.w.lw]
  ELSE [kind |-> "tuple", name |-> <<"unknown">>, parent |-> "None"]

NoKey == [kind |-> "", name |-> <<>>, parent |-> ""]

\* display_name.split(' ')[0] if hasattr(location, 'display_name') else "unknown"
WellNameOf(v) == IF v.t = "well" THEN Head(DisplayName(v.w)) ELSE "unknown"

\* track_volume.parse_location
parse_location(v) ==
  IF v.t = "point" THEN "custom coordinates"
  ELSE IF v.t = "well" THEN "slot"
  ELSE "unknown location"

(***************************************************************************)
(* Log entries: log_action appends {"action": text}, log_error appends     *)
(* {"action": "ERROR: " + text}; log_info only prints.  `call` is the      *)
(* index in `calls` of the call that produced the entry.  `params` holds   *)
(* the optional values a mix entry formats into its text: the repetitions  *)
(* and the volume.                                                         *)
(***************************************************************************)
Entry(level, event, call, tip, well, where, amount, total, rate) ==
  [level |-> level, event |-> event, call |-> call, tip |-> tip,
   well |-> well, where |-> where, amount |-> amount, total |-> total,
   rate |-> rate, params |-> <<>>]

log_action(event, call, tip, well, where, amount, total, rate) ==
  Entry("ACTION", event, call, tip, well, where, amount, total, rate)

log_error(event, call, tip, well, where, amount, total) ==
  Entry("ERROR", event, call, tip, well, where, amount, total, 0)

HasError(app) == \E i \in 1..Len(app) : app[i].level = "ERROR"

(***************************************************************************)
(* track_volume                                                            *)
(***************************************************************************)
\* get_effective_rate: base * multiplier if multiplier else base; a
\* multiplier that is no number makes the product a TypeError: base.
\* "{:.2f}" rounds to hundredths.
get_effective_rate(base, multiplier) ==
  IF multiplier = None THEN base
  ELSE IF multiplier[1].t # "num" THEN base
  ELSE IF multiplier[1].i = 0 THEN base
  ELSE (base * multiplier[1].i + 50) \div 100

\* the requested volume taken as aspirated
AspiratedIsRequested(available, volume) == volume
\* line 189
AspiratedVolume(available, volume) == Min(available, volume)
\* line 191
RemainingVolume(available, aspirated) == Max(0, available - aspirated)
\* line 198
ShortIfOrEqual(available, volume) == available <= volume
Shortfall(available, volume) == available < volume

\* line 212: None stands for float('inf')
CapacityOf(caps, key) == IF key \in DOMAIN caps THEN Some(caps[key]) ELSE None
\* line 213
NewVolumeForgetsCurrent(current, volume) == volume
NewVolume(current, volume) == current + volume
\* line 214
DispensedVolume(volume, cap, current) ==
  IF cap = None THEN volume ELSE Min(volume, cap[1] - current)
\* line 216
ClampedTotal(new_volume, cap) ==
  IF cap = None THEN new_volume ELSE Min(new_volume, cap[1])
\* line 223
Overflow(new_volume, cap) == cap # None /\ new_volume > cap[1]

TrackResult(app, vols, exc) == [app |-> app, vols |-> vols, exc |-> exc]

\* lines 181-202
AspiratePath(volume, source, rate, tip_type, vols, callno) ==
  LET key == well_key(source[1])
      details == parse_location(source[1])
      well_name == WellNameOf(source[1])
      available == Get(vols, key, 0)
  IN IF ~IsNum(volume) THEN TrackResult(<<>>, vols, "TypeError")
     ELSE IF tip_type \notin DOMAIN flow_rates
     THEN TrackResult(<<>>, vols, "KeyError")
     ELSE
       LET v == volume[1].i
           aspirated == AspiratedVolume(available, v)
           rate_eff == get_effective_rate(flow_rates[tip_type].aspirate, rate)
           left == RemainingVolume(available, aspirated)
           act == log_action("aspirate", callno, tip_type, well_name, details,
                             aspirated, left, rate_eff)
           err == log_error("shortfall", callno, tip_type, well_name, details,
                            v, available)
       IN TrackResult(IF Shortfall(available, v) THEN <<act, err>> ELSE <<act>>,
                      Put(vols, key, left), "")

\* lines 204-227
DispensePath(volume, destination, rate, tip_type, vols, callno) ==
  LET key == well_key(destination[1])
      details == parse_location(destination[1])
      well_name == WellNameOf(destination[1])
      current == Get(vols, key, 0)
      cap == CapacityOf(well_capacity, key)
  IN IF ~IsNum(volume) THEN TrackResult(<<>>, vols, "TypeError")
     ELSE IF tip_type \notin DOMAIN flow_rates
     THEN TrackResult(<<>>, vols, "KeyError")
     ELSE
       LET v == volume[1].i
           new_volume == NewVolume(current, v)
           dispensed == DispensedVolume(v, cap, current)
           rate_eff == get_effective_rate(flow_rates[tip_type].dispense, rate)
           total == ClampedTotal(new_volume, cap)
           act == log_action("dispense", callno, tip_type, well_name, details,
                             dispensed, total, rate_eff)
           err == log_error("overflow", callno, tip_type, well_name, details,
                            v, IF cap = None THEN 0 ELSE cap[1])
       IN TrackResult(IF Overflow(new_volume, cap) THEN <<act, err>> ELSE <<act>>,
                      Put(vols, key, total), "")

\* lines 141-227: the source part, then the destination part.  (The wrapper
\* passes one of the two.)
track_volume(volume, source, destination, rate, tip_type0, callno) ==
  LET tip_type == IF tip_type0 = NoTip THEN UnknownTipType ELSE tip_type0
      r1 == IF Truthy(source)
            THEN AspiratePath(volume, source, rate, tip_type, well_volumes, callno)
            ELSE TrackResult(<<>>, well_volumes, "")
      r2 == IF r1.exc = "" /\ Truthy(destination)
            THEN DispensePath(volume, destination, rate, tip_type, r1.vols, callno)
            ELSE TrackResult(<<>>, r1.vols, r1.exc)
  IN TrackResult(r1.app \o r2.app, r2.vols, r2.exc)

(***************************************************************************)
(* decorate.wrapper: the bookkeeping done before the forward call          *)
(***************************************************************************)
\* lines 292-294
CountAllTipTypes(usage, tip_type) ==
  [t \in (DOMAIN usage) \cup {tip_type} |-> Get(usage, t, 0) + 1]
PickUpCount(usage, tip_type) == Put(usage, tip_type, Get(usage, tip_type, 0) + 1)

Book(app, vols, tips, exc) ==
  [app |-> app, vols |-> vols, tips |-> tips, exc |-> exc]

\* lines 261-265: the function has no __self__
UnboundFallsThrough(f, callno) ==
  Book(<<>>, well_volumes, tip_usage, "AttributeError")
UnboundBook(f, callno) ==
  Book(<<log_error("unbound", callno, NoTip, f.name, "", 0, 0)>>,
       well_volumes, tip_usage, "")

\* line 272: hasattr(location, 'parent'); a Well has a parent, a Location
\* (point, labware), a number and a str have none
PointHasParent(location) == location # None /\ location[1].t \in {"well", "point"}
HasParent(location) == location # None /\ location[1].t = "well"

\* line 278: rate or 1.0
MixRate(rate) == IF Truthy(rate) THEN rate[1].i ELSE 100

\* lines 271-282.  "{:.2f}" of a rate that is no number is a ValueError.
MixBook(volume, location, rate, repetitions, tip_type, callno) ==
  IF ~HasParent(location)
  THEN Book(<<log_error("mix location", callno, NoTip, "", "", 0, 0)>>,
            well_volumes, tip_usage, "")
  ELSE IF Truthy(rate) /\ ~IsNum(rate)
  THEN Book(<<>>, well_volumes, tip_usage, "ValueError")
  ELSE Book(<<[log_action("mix", callno, tip_type, WellNameOf(location[1]),
                          location[1].w.lw, 0, 0, MixRate(rate))
                 EXCEPT !.params = <<repetitions, volume>>]>>,
            well_volumes, tip_usage, "")

\* lines 300-306: the rate product (a str factor, or the "unknown" default
\* times a number, is a TypeError), then self.track_blowout, which
\* LoggerDecorator does not define: AttributeError
BlowOutBook(location, rate, tip_type, callno) ==
  IF Truthy(rate) /\ (~IsNum(rate) \/ tip_type \notin DOMAIN flow_rates)
  THEN Book(<<>>, well_volumes, tip_usage, "TypeError")
  ELSE Book(<<>>, well_volumes, tip_usage, "AttributeError")

\* lines 267-347, for a function bound to `f.self`
BoundBook(f, a, callno) ==
  LET volume == KwOrArg(a, "volume", 0)
      location == KwOrArg(a, "location", 1)
      rate == KwOnly(a, "rate")
      tip_type == get_dynamic_tip_type(f.self)
      quiet == Book(<<>>, well_volumes, tip_usage, "")
  IN IF ~HasTipRacks(f.self) THEN Book(<<>>, well_volumes, tip_usage, "AttributeError")
     ELSE IF f.name = "mix"
     THEN MixBook(volume, location, rate, KwOnly(a, "repetitions"), tip_type, callno)
     ELSE IF f.name = "aspirate"
     THEN LET r == track_volume(volume, location, None, rate, tip_type, callno)
          IN Book(r.app, r.vols, tip_usage, r.exc)
     ELSE IF f.name = "dispense"
     THEN LET r == track_volume(volume, None, location, rate, tip_type, callno)
          IN Book(r.app, r.vols, tip_usage, r.exc)
     ELSE IF f.name = "pick_up_tip"
     THEN LET usage == PickUpCount(tip_usage, tip_type)
          IN Book(<<log_action("pick_up_tip", callno, tip_type, "", "", 0,
                               usage[tip_type], 0)>>,
                  well_volumes, usage, "")
     ELSE IF f.name = "drop_tip"
     THEN Book(<<log_action("drop_tip", callno, tip_type, "", "", 0, 0, 0)>>,
               well_volumes, tip_usage, "")
     ELSE IF f.name = "blow_out"
     THEN BlowOutBook(location, rate, tip_type, callno)
     ELSE IF f.name \in {"set_block_temperature", "set_lid_temperature"}
     THEN LET temperature == KwOrArg(a, "temperature", 0)
          IN Book(<<log_action(f.name, callno, tip_type, "", "",
                               IF IsNum(temperature) THEN temperature[1].i ELSE 0,
                               0, 0)>>,
                  well_volumes, tip_usage, "")
     ELSE IF f.name \in {"close_lid", "open_lid", "disengage", "engage"}
     THEN Book(<<log_action(f.name, callno, tip_type, "", "", 0, 0, 0)>>,
               well_volumes, tip_usage, "")
     ELSE Book(<<log_action("executing", callno, tip_type, f.name, "", 0, 0, 0)>>,
               well_volumes, tip_usage, "")

\* lines 245-347
Bookkeeping(f, a, callno) ==
  IF f.self = NoSelf THEN UnboundBook(f, callno) ELSE BoundBook(f, a, callno)

\* line 349 (and 265): func(*args, **kwargs)
ForwardedArgs(a) == a
ReturnedValue(real_result) == real_result
\* the exception the real operation raises, "" when it returns
RealOutcome == IF faulty THEN "DeviceError" ELSE ""
\* the forward call stands in no try block: what func raises, the wrapper
\* raises
ForwardSwallows(exc) == ""
RaisedByForward(exc) == exc

(***************************************************************************)
(* The record kept of every call the script issues on a handle             *)
(***************************************************************************)
Snapshot(vols, tips) == [vols |-> vols, tips |-> tips]

\* the ledger key an aspirate / dispense call addresses
AddressedKey(f, a) ==
  LET location == KwOrArg(a, "location", 1)
  IN IF f.name \in {"aspirate", "dispense"} /\ Truthy(location)
     THEN well_key(location[1]) ELSE NoKey

\* what update_well_tracking has stored for the addressed well, if anything
SeededFor(d, a) ==
  LET location == KwOrArg(a, "location", 1)
  IN IF Truthy(location) /\ location[1].t = "well"
     THEN CapacityOf(d, WellObjectKey(location[1].w)) ELSE None

\* the outcome of a call that has reached its forward call while the device
\* raises `dev` ("" when it does not)
ForwardPhase(dev) == IF RaisedByForward(dev) # "" THEN "failed" ELSE "returned"

\* what the tracker holds at one point of a call: the length of the log, the
\* ledger and the tip counters
Tracking(nlogs, vols, tips) == [nlogs |-> nlogs, vols |-> vols, tips |-> tips]

\* the alternative order: the real operation invoked on entry of the wrapper
StateAtEntry(entry, booked) == entry

\* line 349 is the wrapper's last statement, below every tracking branch: the
\* real operation is invoked in the state the bookkeeping has left
StateAtForward(entry, booked) == booked

\* layers: 0 for the device's own method, 1 for a wrapper, 2 for a wrapper of
\* a wrapper.  phase: "returned"; "raised" (the tracking layer raised);
\* "failed" (the real operation raised); "paused" (inside input()).
\* dev: what the real operation raised.  single: the bookkeeping of a call of
\* the singly wrapped operation from the state of the call.
CallRecord(f, a, layers, phase, exc, dev, single, vols, tips) ==
  [f |-> f, a |-> a, intercepted |-> layers > 0, layers |-> layers,
   phase |-> phase, exc |-> exc, dev |-> dev,
   real |-> IF phase \in {"returned", "failed"} THEN 1 ELSE 0,
   fwd |-> IF phase \in {"returned", "failed"} THEN Some(ForwardedArgs(a)) ELSE None,
   ret |-> IF phase = "returned" THEN Some(ReturnedValue(RealResult(f, a))) ELSE None,
   singleApp |-> single.app,
   singlePost |-> Snapshot(single.vols, single.tips),
   key |-> AddressedKey(f, a),
   vBefore |-> Get(well_volumes, AddressedKey(f, a), 0),
   vAfter |-> Get(vols, AddressedKey(f, a), 0),
   capRead |-> CapacityOf(well_capacity, AddressedKey(f, a)),
   seedVol |-> SeededFor(well_volumes, a),
   seedCap |-> SeededFor(well_capacity, a),
   rates |-> flow_rates, ratesAfter |-> flow_rates',
   entry |-> Tracking(Len(logs), well_volumes, tip_usage),
   atForward |-> IF phase \in {"returned", "failed"}
                 THEN Some(StateAtForward(Tracking(Len(logs), well_volumes, tip_usage),
                                          Tracking(Len(logs'), vols, tips)))
                 ELSE None,
   pre |-> Snapshot(well_volumes, tip_usage),
   post |-> Snapshot(vols, tips)]

(***************************************************************************)
(* Initial state: LoggerDecorator.__init__                                 *)
(***************************************************************************)
Init ==
  /\ logs = <<>>
  /\ well_volumes = EmptyMap
  /\ well_capacity = EmptyMap
  /\ tip_usage = EmptyMap
  /\ flow_rates = EmptyMap
  /\ rate_property = [patched |-> FALSE,
                      value |-> [k \in RateKinds |-> 0],
                      pipette |-> NoSelf]
  /\ wrapped = {}
  /\ wrappedHandles = {}
  /\ pc = "idle"
  /\ calls = <<>>
  /\ rewrapped = {}
  /\ faulty = FALSE
  /\ assigns = <<>>
  /\ seeding = None

(***************************************************************************)
(* Operations                                                              *)
(***************************************************************************)
Method(h, name) == [self |-> h, name |-> name]

\* pipette.flow_rate.<kind>: the class-level descriptor once it is installed
ReadRate(h, kind) ==
  IF rate_property.patched THEN rate_property.value[kind] ELSE NominalRate(h)[kind]

\* the attributes wrap_instrument replaces
InstrumentOps == {"aspirate", "dispense", "pick_up_tip", "drop_tip"}

\* wrap_instrument, with wrap_flow_rate and log_initial_flow_rates
WrapInstrument(h) ==
  /\ pc = "idle"
  /\ h \notin wrappedHandles
  /\ wrapped' = wrapped \cup {Method(h, name) : name \in InstrumentOps}
  /\ wrappedHandles' = wrappedHandles \cup {h}
  /\ rate_property' = [patched |-> TRUE,
                       value |-> [k \in RateKinds |-> ReadRate(h, k)],
                       pipette |-> h]
  /\ flow_rates' = Put(flow_rates, get_dynamic_tip_type(h),
                       [k \in RateKinds |-> ReadRate(h, k)])
  /\ UNCHANGED <<logs, well_volumes, well_capacity, tip_usage, pc, calls,
                 rewrapped, faulty, assigns, seeding>>

\* wrap_module
WrapModule(m) ==
  /\ pc = "idle"
  /\ m \notin wrappedHandles
  /\ wrapped' = wrapped \cup
       {Method(m, name) : name \in
          ModuleOps(m) \cap {"engage", "disengage", "set_block_temperature",
                             "set_lid_temperature", "close_lid", "open_lid"}}
  /\ wrappedHandles' = wrappedHandles \cup {m}
  /\ UNCHANGED <<logs, well_volumes, well_capacity, tip_usage, flow_rates,
                 rate_property, pc, calls, rewrapped, faulty, assigns, seeding>>

\* f = logger.decorate(f)
Decorate(f) ==
  /\ pc = "idle"
  /\ f \notin wrapped
  /\ wrapped' = wrapped \cup {f}
  /\ UNCHANGED <<logs, well_volumes, well_capacity, tip_usage, flow_rates,
                 rate_property, wrappedHandles, pc, calls, rewrapped, faulty,
                 assigns, seeding>>

\* run.update_well_tracking; the script seeds the ledger (lines 100-123)
\* before it issues its first call
SeededVolumeIgnoresOverrides(w, initial_volume, overrides) == initial_volume
SeededVolume(w, initial_volume, overrides) ==
  IF overrides # EmptyMap THEN Get(overrides, w.name, initial_volume)
  ELSE initial_volume

\* the record `seeding` keeps of a call: its arguments, whether the call
\* before it had the same arguments, and the ledger before and after it
SeedArgs(labware, capacity, initial_volume, overrides) ==
  [labware |-> labware, capacity |-> capacity, initial_volume |-> initial_volume,
   overrides |-> overrides]
Ledger(caps, vols) == [caps |-> caps, vols |-> vols]

update_well_tracking(labware, capacity, initial_volume, overrides) ==
  LET ws == {w \in Wells : w.lw = labware}
      keys == {WellObjectKey(w) : w \in ws}
      wellOf(k) == CHOOSE w \in ws : WellObjectKey(w) = k
  IN /\ pc = "idle"
     /\ calls = <<>>
     /\ well_capacity' = [k \in (DOMAIN well_capacity) \cup keys |->
                            IF k \in keys THEN capacity ELSE well_capacity[k]]
     /\ well_volumes' = [k \in (DOMAIN well_volumes) \cup keys |->
                           IF k \in keys
                           THEN SeededVolume(wellOf(k), initial_volume, overrides)
                           ELSE well_volumes[k]]
     /\ seeding' = Some([args |-> SeedArgs(labware, capacity, initial_volume,
                                            overrides),
                          again |-> seeding # None
                                    /\ seeding[1].args = SeedArgs(labware, capacity,
                                                                  initial_volume,
                                                                  overrides),
                          pre |-> Ledger(well_capacity, well_volumes),
                          post |-> Ledger(well_capacity', well_volumes')])
     /\ UNCHANGED <<logs, tip_usage, flow_rates, rate_property, wrapped,
                    wrappedHandles, pc, calls, rewrapped, faulty, assigns>>

\* The record kept of an assignment pipette.flow_rate.<kind> = value: `at`
\* is the number of calls issued before it, `info` what log_info printed,
\* `entries` what it appended to self.logs (log_info appends nothing), `read`
\* the rate the script reads back from the instrument.
AssignRecord(h, kind, value, exc, table, info, read) ==
  [h |-> h, kind |-> kind, value |-> value, exc |-> exc, at |-> Len(calls),
   pre |-> flow_rates, post |-> table, info |-> info, entries |-> <<>>,
   readBefore |-> ReadRate(h, kind), readAfter |-> read]

\* log_flow_rate_change: the table entry of the tip type of `pipette` after
\* setdefault (which reads the rates through the descriptors) and the store
ChangedRates(table, tip_type, current, kind, x) ==
  Put(table, tip_type, [Get(table, tip_type, current) EXCEPT ![kind] = x])

\* pipette.flow_rate.<kind> = value on an instrument whose flow_rate class
\* carries the descriptors: LoggedFlowRateProperty.__set__ of the descriptor
\* installed last, whose self.pipette is the instrument wrapped last
SetFlowRate(h, kind, value) ==
  LET tip_type == get_dynamic_tip_type(rate_property.pipette)
      current == [rate_property.value EXCEPT ![kind] = value.i]
      table == ChangedRates(flow_rates, tip_type, current, kind, value.i)
  IN /\ pc = "idle"
     /\ Len(assigns) < MaxAssigns
     /\ rate_property.patched
     /\ h \in wrappedHandles \cap Instruments
     /\ IF value.t # "num"
        THEN /\ assigns' = Append(assigns,
                              AssignRecord(h, kind, value, "ValueError", flow_rates,
                                           None, ReadRate(h, kind)))
             /\ UNCHANGED <<flow_rates, rate_property>>
        ELSE /\ rate_property' = [rate_property EXCEPT !.value = current]
             /\ flow_rates' = table
             /\ assigns' = Append(assigns,
                              AssignRecord(h, kind, value, "", table,
                                           Some([tip |-> tip_type, kind |-> kind,
                                                 value |-> value.i]),
                                           value.i))
     /\ UNCHANGED <<logs, well_volumes, well_capacity, tip_usage, wrapped,
                    wrappedHandles, pc, calls, rewrapped, faulty, seeding>>

\* a call of an attribute that holds a wrapper: the wrapper up to the point
\* where it forwards, raises, or waits in input() after an ERROR entry
\* The course of a wrapper whose bookkeeping came out as b: it raised, or it
\* waits in input() after an ERROR entry, or it has reached the forward call
Forwards(b) == b.exc = "" /\ ~HasError(b.app)
DeviceRaises(b) == IF Forwards(b) THEN RealOutcome ELSE ""
PhaseAfter(b) ==
  IF b.exc # "" THEN "raised"
  ELSE IF HasError(b.app) THEN "paused" ELSE ForwardPhase(DeviceRaises(b))
ExcAfter(b) == IF b.exc # "" THEN b.exc ELSE RaisedByForward(DeviceRaises(b))

\* the state the wrapper leaves when its bookkeeping came out as b
Booked(b) ==
  /\ logs' = logs \o b.app
  /\ well_volumes' = b.vols
  /\ tip_usage' = b.tips
  /\ pc' = IF PhaseAfter(b) = "paused" THEN "paused" ELSE "idle"
  /\ faulty' = IF Forwards(b) THEN FALSE ELSE faulty

Intercept(f, a, b) ==
  /\ Booked(b)
  /\ calls' = Append(calls, CallRecord(f, a, 1, PhaseAfter(b), ExcAfter(b),
                                       DeviceRaises(b), b, b.vols, b.tips))

CallWrapped(f, a) ==
  /\ pc = "idle"
  /\ Len(calls) < MaxCalls
  /\ f \in wrapped
  /\ f \notin rewrapped
  /\ UNCHANGED <<well_capacity, flow_rates, rate_property, wrapped, wrappedHandles,
                 rewrapped, assigns, seeding>>
  /\ Intercept(f, a, Bookkeeping(f, a, Len(calls) + 1))

\* the operator acknowledges "Press Enter to continue...": log_error returns
\* and the wrapper forwards the call
Resumed(c) ==
  [c EXCEPT !.phase = ForwardPhase(RealOutcome),
            !.exc = RaisedByForward(RealOutcome),
            !.dev = RealOutcome,
            !.real = @ + 1,
            !.fwd = Some(ForwardedArgs(c.a)),
            !.ret = IF ForwardPhase(RealOutcome) = "returned"
                    THEN Some(ReturnedValue(RealResult(c.f, c.a))) ELSE None,
            !.ratesAfter = flow_rates,
            !.atForward = Some(StateAtForward(c.entry,
                                 Tracking(Len(logs), well_volumes, tip_usage))),
            !.post = Snapshot(well_volumes, tip_usage)]

PressEnter ==
  /\ pc = "paused"
  /\ pc' = "idle"
  /\ calls' = [calls EXCEPT ![Len(calls)] = Resumed(@)]
  /\ faulty' = FALSE
  /\ UNCHANGED <<logs, well_volumes, well_capacity, tip_usage, flow_rates,
                 rate_property, wrapped, wrappedHandles, rewrapped, assigns, seeding>>

\* wrap_instrument on a handle it has wrapped before: each of the four
\* attributes now holds decorate(wrapper), and wrap_flow_rate and
\* log_initial_flow_rates run again, reading the rates through the descriptors
WrapInstrumentAgain(h) ==
  /\ pc = "idle"
  /\ h \in wrappedHandles \cap Instruments
  /\ \A name \in InstrumentOps : Method(h, name) \in wrapped \ rewrapped
  /\ rewrapped' = rewrapped \cup {Method(h, name) : name \in InstrumentOps}
  /\ rate_property' = [patched |-> TRUE,
                       value |-> [k \in RateKinds |-> ReadRate(h, k)],
                       pipette |-> h]
  /\ flow_rates' = Put(flow_rates, get_dynamic_tip_type(h),
                       [k \in RateKinds |-> ReadRate(h, k)])
  /\ UNCHANGED <<logs, well_volumes, well_capacity, tip_usage, wrapped,
                 wrappedHandles, pc, calls, faulty, assigns, seeding>>

\* the function the outer wrapper holds: the inner wrapper, a plain function
\* named "wrapper" that has no __self__
InnerWrapper == Method(NoSelf, "wrapper")

\* a call of an attribute that holds a wrapper of a wrapper: the outer
\* wrapper finds no __self__ on its func, logs the ERROR and waits in input()
CallRewrapped(f, a) ==
  LET callno == Len(calls) + 1
      outer == UnboundBook(InnerWrapper, callno)
  IN /\ pc = "idle"
     /\ Len(calls) < MaxCalls
     /\ f \in rewrapped
     /\ UNCHANGED <<well_volumes, well_capacity, tip_usage, flow_rates,
                    rate_property, wrapped, wrappedHandles, rewrapped, faulty,
                    assigns, seeding>>
     /\ logs' = logs \o outer.app
     /\ pc' = "paused_outer"
     /\ calls' = Append(calls, CallRecord(f, a, 2, "paused", "", "",
                                          Bookkeeping(f, a, callno),
                                          well_volumes, tip_usage))

\* the operator acknowledges the outer wrapper's input(): line 265 calls the
\* inner wrapper, which does the bookkeeping of the bound operation
InterceptInner(c, b) ==
  /\ Booked(b)
  /\ calls' = [calls EXCEPT ![Len(calls)] =
                 [CallRecord(c.f, c.a, 2, PhaseAfter(b), ExcAfter(b),
                             DeviceRaises(b), b, b.vols, b.tips)
                    EXCEPT !.vBefore = c.vBefore, !.pre = c.pre,
                           !.entry = c.entry,
                           !.singleApp = c.singleApp,
                           !.singlePost = c.singlePost]]

EnterInner ==
  /\ pc = "paused_outer"
  /\ UNCHANGED <<well_capacity, flow_rates, rate_property, wrapped, wrappedHandles,
                 rewrapped, assigns, seeding>>
  /\ InterceptInner(calls[Len(calls)],
                    Bookkeeping(calls[Len(calls)].f, calls[Len(calls)].a, Len(calls)))

\* a call of an attribute of a wrapped handle that wrap_instrument left alone:
\* it is the device's own method
CallDirect(f, a) ==
  /\ pc = "idle"
  /\ Len(calls) < MaxCalls
  /\ f \notin wrapped
  /\ f.self \in wrappedHandles
  /\ UNCHANGED <<logs, well_volumes, well_capacity, tip_usage, flow_rates,
                 rate_property, wrapped, wrappedHandles, pc, rewrapped, assigns,
                 seeding>>
  /\ calls' = Append(calls, CallRecord(f, a, 0, IF faulty THEN "failed" ELSE "returned",
                                       RealOutcome, RealOutcome,
                                       Book(<<>>, well_volumes, tip_usage, ""),
                                       well_volumes, tip_usage))
  /\ faulty' = FALSE

(***************************************************************************)
(* The calls of the driving script                                         *)
(***************************************************************************)
A1 == [lw |-> "plate", name |-> "A1"]
B1 == [lw |-> "plate", name |-> "B1"]
PlainFunction == Method(NoSelf, "aspirate")

\* aspirate / dispense: (20, A1); (20) with no location; location=A1 with the
\* volume left out; (20, A1, rate=2.0)
PipetteArgs ==
  { Pos(<<Num(20), WellV(A1)>>), Pos(<<Num(20)>>),
    Kw(<<>>, "location", WellV(A1)),
    Kw(<<Num(20), WellV(A1)>>, "rate", Num(200)) }

\* p300 issues every form; p20 its tip operations and one aspirate
ScriptCalls ==
  { <<Method("p300", name), a>> : name \in {"aspirate", "dispense"}, a \in PipetteArgs }
  \cup { <<Method(h, name), Pos(<<>>)>> : h \in Instruments,
                                          name \in {"pick_up_tip", "drop_tip"} }
  \cup { <<Method("p20", "aspirate"), Pos(<<Num(20), WellV(A1)>>)>> }
  \cup { <<Method("tc_mod", "open_lid"), Pos(<<>>)>>,
         <<Method("tc_mod", "set_block_temperature"), Pos(<<Num(98)>>)>> }
  \cup { <<PlainFunction, Pos(<<Num(20), WellV(A1)>>)>> }

DirectCalls ==
  { <<Method("p300", "mix"), Pos(<<Num(10), Num(30), WellV(A1)>>)>>,
    <<Method("p300", "blow_out"), Pos(<<WellV(A1)>>)>> }

\* The script wraps its handles in this order (lines 62-69) and issues its
\* first call after that.
SetupOrder == <<"tc_mod", "p20", "p300">>
NextToWrap(h) ==
  /\ Cardinality(wrappedHandles) < Len(SetupOrder)
  /\ h = SetupOrder[Cardinality(wrappedHandles) + 1]
SetupDone == Cardinality(wrappedHandles) = Len(SetupOrder)

Next ==
  \/ \E h \in Instruments : NextToWrap(h) /\ WrapInstrument(h)
  \/ \E m \in Modules : NextToWrap(m) /\ WrapModule(m)
  \/ Decorate(PlainFunction)
  \/ \E c \in ScriptCalls : SetupDone /\ CallWrapped(c[1], c[2])
  \/ \E c \in DirectCalls : SetupDone /\ CallDirect(c[1], c[2])
  \/ PressEnter

Spec == Init /\ [][Next]_vars

\* The ledger run: one wrapped pipette, wells seeded once by update_well_tracking,
\* aspirates and dispenses of several volumes at wells and at a point in a well
LedgerVolumes == {20, 80, 150}
LedgerLocations == {WellV(A1), PointV(A1)}
LedgerCalls ==
  { <<Method("p300", name), Pos(<<Num(v), loc>>)>> :
      name \in {"aspirate", "dispense"}, v \in LedgerVolumes, loc \in LedgerLocations }

Capacities == {200, 360}
InitialVolumes == {0, 360}
OverrideSets == {EmptyMap}

NextLedger ==
  \/ WrapInstrument("p300")
  \/ \E lw \in Labwares, c \in Capacities, v \in InitialVolumes, o \in OverrideSets :
       seeding = None /\ update_well_tracking(lw, c, v, o)
  \/ \E c \in LedgerCalls : CallWrapped(c[1], c[2])
  \/ PressEnter

SpecLedger == Init /\ [][NextLedger]_vars

\* The mix run: p300.mix = logger.decorate(p300.mix), likewise blow_out, and
\* calls of the two with their arguments by position and by name
MixOps == {Method("p300", "mix"), Method("p300", "blow_out")}
MixCalls ==
  { <<Method("p300", "mix"), a>> : a \in
      { Pos(<<Num(3), Num(30), WellV(A1)>>),
        Pos(<<Num(3), Num(30)>>),
        Kws(<<>>, [repetitions |-> Num(3), volume |-> Num(30)]),
        Kws(<<>>, [repetitions |-> Num(3), volume |-> Num(30), location |-> WellV(A1)]),
        Kws(<<>>, [repetitions |-> Num(3), volume |-> Num(30), location |-> PointV(A1)]),
        Kws(<<Num(3), Num(30)>>, [location |-> WellV(B1), rate |-> Num(200)]) } }
  \cup { <<Method("p300", "blow_out"), a>> : a \in
      { Pos(<<>>), Kw(<<>>, "location", WellV(A1)),
        Kws(<<>>, [location |-> WellV(A1), rate |-> Num(200)]) } }

NextMix ==
  \/ WrapInstrument("p300")
  \/ \E f \in MixOps : Decorate(f)
  \/ \E c \in MixCalls : CallWrapped(c[1], c[2])
  \/ PressEnter

SpecMix == Init /\ [][NextMix]_vars

\* The re-wrapping run: wrap_instrument applied to p300 once or twice
RewrapCalls ==
  { <<Method("p300", "pick_up_tip"), Pos(<<>>)>>,
    <<Method("p300", "drop_tip"), Pos(<<>>)>>,
    <<Method("p300", "dispense"), Pos(<<Num(20), WellV(A1)>>)>>,
    <<Method("p300", "aspirate"), Pos(<<Num(80), WellV(A1)>>)>> }

NextRewrap ==
  \/ WrapInstrument("p300")
  \/ WrapInstrumentAgain("p300")
  \/ \E c \in RewrapCalls : CallWrapped(c[1], c[2])
  \/ \E c \in RewrapCalls : CallRewrapped(c[1], c[2])
  \/ EnterInner
  \/ PressEnter

SpecRewrap == Init /\ [][NextRewrap]_vars

\* The seeding run: update_well_tracking called again and again, with and
\* without overrides, before the first aspirate or dispense
SeedCapacities == {200, 360}
SeedVolumes == {0, 100, 360}
SeedOverrides == {EmptyMap, [x \in {"A1"} |-> 50]}

NextSeed ==
  \/ WrapInstrument("p300")
  \/ \E lw \in Labwares, c \in SeedCapacities, v \in SeedVolumes, o \in SeedOverrides :
       update_well_tracking(lw, c, v, o)

SpecSeed == Init /\ [][NextSeed]_vars

\* The failure run: the device may raise in its next real operation
FaultCalls ==
  { <<Method("p300", "pick_up_tip"), Pos(<<>>)>>,
    <<Method("p300", "dispense"), Pos(<<Num(20), WellV(A1)>>)>>,
    <<Method("p300", "aspirate"), Pos(<<Num(80), WellV(A1)>>)>> }

\* the device gets into a condition in which its next operation raises
DeviceFault ==
  /\ pc = "idle"
  /\ ~faulty
  /\ faulty' = TRUE
  /\ UNCHANGED <<logs, well_volumes, well_capacity, tip_usage, flow_rates,
                 rate_property, wrapped, wrappedHandles, pc, calls, rewrapped,
                 assigns, seeding>>

NextFault ==
  \/ WrapInstrument("p300")
  \/ DeviceFault
  \/ \E c \in FaultCalls : CallWrapped(c[1], c[2])
  \/ \E c \in DirectCalls : CallDirect(c[1], c[2])
  \/ PressEnter

SpecFault == Init /\ [][NextFault]_vars

\* The rate run: both pipettes wrapped in the script's order (lines 68-69),
\* then rate assignments and aspirates / dispenses
RateAssignments ==
  { <<"p20", "aspirate", Num(500)>>, <<"p20", "dispense", Num(600)>>,
    <<"p300", "aspirate", Num(1000)>>, <<"p300", "blow_out", Num(700)>>,
    <<"p300", "aspirate", StrV>>, <<"p20", "dispense", StrV>> }
RateCalls ==
  { <<Method("p20", "dispense"), Pos(<<Num(20), WellV(A1)>>)>>,
    <<Method("p20", "aspirate"), Pos(<<Num(20), WellV(A1)>>)>>,
    <<Method("p300", "aspirate"), Kw(<<Num(20), WellV(A1)>>, "rate", Num(200))>> }

NextRates ==
  \/ \E h \in Instruments :
       (h = "p20" \/ "p20" \in wrappedHandles) /\ WrapInstrument(h)
  \/ \E s \in RateAssignments :
       Instruments \subseteq wrappedHandles /\ SetFlowRate(s[1], s[2], s[3])
  \/ \E c \in RateCalls :
       Instruments \subseteq wrappedHandles /\ CallWrapped(c[1], c[2])
  \/ PressEnter

SpecRates == Init /\ [][NextRates]_vars

(***************************************************************************)
(* Properties                                                              *)
(***************************************************************************)
Intercepted == {i \in DOMAIN calls : calls[i].intercepted}
EntriesOf(i) == {n \in DOMAIN logs : logs[n].call = i}
ErrorsOf(i) == {n \in EntriesOf(i) : logs[n].level = "ERROR"}
Errors(i, event) == Cardinality({n \in ErrorsOf(i) : logs[n].event = event})
VolumeArg(c) == KwOrArg(c.a, "volume", 0)
PassedThrough(c) ==
  /\ c.real = 1
  /\ c.fwd = Some(c.a)
  /\ c.ret = Some(RealResult(c.f, c.a))

\* C1: every call of a wrapped operation that has ended has invoked the real
\* operation exactly once, with the caller's arguments, and has returned the
\* real operation's result.
C1_WrappedCallPassesThrough ==
  \A i \in Intercepted :
    calls[i].phase # "paused" => calls[i].phase = "returned" /\ PassedThrough(calls[i])

\* C2: a wrapped aspirate or dispense of an instrument never raises in the
\* ledger bookkeeping, whatever volume (also omitted), location and rate it
\* is given, and once ended it has reached the real operation.
C2_LedgerNeverRaises ==
  \A i \in Intercepted :
    LET c == calls[i]
    IN c.f.self \in Instruments /\ c.f.name \in {"aspirate", "dispense"}
       => /\ c.phase # "raised"
          /\ c.phase = "returned" => c.real = 1

\* C3: a wrapped aspirate of v from a well whose tracked volume is V0 leaves
\* V0 - v and logs no shortfall ERROR when v <= V0, and leaves 0 and logs
\* exactly one shortfall ERROR when v > V0.
C3_AspirateUpdatesVolume ==
  \A i \in Intercepted :
    LET c == calls[i]
        v == VolumeArg(c)[1].i
    IN c.f.self \in Instruments /\ c.f.name = "aspirate" /\ c.key # NoKey
         /\ IsNum(VolumeArg(c))
       => /\ IF v <= c.vBefore
             THEN c.vAfter = c.vBefore - v /\ Errors(i, "shortfall") = 0
             ELSE c.vAfter = 0 /\ Errors(i, "shortfall") = 1
          /\ i = Len(calls) => Get(well_volumes, c.key, 0) = c.vAfter

C3_Witness ==
  \E i, j \in Intercepted :
    /\ calls[i].f.name = "aspirate" /\ calls[i].phase = "returned"
    /\ calls[i].vBefore > 0 /\ VolumeArg(calls[i])[1].i <= calls[i].vBefore
    /\ calls[j].f.name = "aspirate" /\ calls[j].phase = "returned"
    /\ calls[j].vBefore > 0 /\ VolumeArg(calls[j])[1].i > calls[j].vBefore

\* The dispenses into ledger key k since its tracked volume was last 0: their
\* number, their sum, the capacity ERROR entries they logged, and whether
\* nothing but dispenses touched k since.
RECURSIVE DispenseRun(_, _)
DispenseRun(k, n) ==
  IF n = 0 THEN [n |-> 0, sum |-> 0, errs |-> 0, clean |-> TRUE]
  ELSE LET c == calls[n]
           prev == DispenseRun(k, n - 1)
       IN IF ~c.intercepted \/ c.key # k \/ c.phase = "raised" THEN prev
          ELSE IF c.f.name = "dispense"
          THEN [n |-> prev.n + 1, sum |-> prev.sum + VolumeArg(c)[1].i,
                errs |-> prev.errs + Errors(n, "overflow"), clean |-> prev.clean]
          ELSE IF c.vAfter = 0
          THEN [n |-> 0, sum |-> 0, errs |-> 0, clean |-> TRUE]
          ELSE [prev EXCEPT !.clean = FALSE]

LedgerKeys ==
  {well_key(WellV(w)) : w \in Wells} \cup {well_key(PointV(w)) : w \in Wells}

\* the capacity the tracking context holds for the well of ledger key k
TrackedCapacity(k) ==
  LET seeded == {w \in Wells : well_key(WellV(w)) = k
                               /\ WellObjectKey(w) \in DOMAIN well_capacity}
  IN IF k \in DOMAIN well_capacity THEN Some(well_capacity[k])
     ELSE IF seeded # {}
     THEN Some(well_capacity[WellObjectKey(CHOOSE w \in seeded : TRUE)])
     ELSE None

\* C4: for a well of capacity C whose tracked volume is 0, after any sequence
\* of wrapped dispenses d1..dn into it with d1+...+dn <= C the tracked volume
\* is d1+...+dn and no capacity ERROR entry has been logged.
C4_DispensesWithinCapacityAddUp ==
  \A k \in LedgerKeys :
    LET r == DispenseRun(k, Len(calls))
        cap == TrackedCapacity(k)
    IN r.clean /\ (cap = None \/ r.sum <= cap[1])
       => Get(well_volumes, k, 0) = r.sum /\ r.errs = 0

C4_Witness ==
  \E k \in LedgerKeys :
    LET r == DispenseRun(k, Len(calls))
        cap == TrackedCapacity(k)
    IN r.clean /\ r.n >= 2 /\ cap # None /\ r.sum <= cap[1] /\ pc = "idle"

\* the capacity held for the well a call addressed, when the call was made
CapacityAtCall(c) == IF c.capRead # None THEN c.capRead ELSE c.seedCap

\* C5: a wrapped dispense of d > 0 into a well of capacity C and tracked
\* volume V <= C with V + d > C sets the tracked volume to C and logs exactly
\* one capacity ERROR entry.
C5_DispenseClampsAtCapacity ==
  \A i \in Intercepted :
    LET c == calls[i]
        d == VolumeArg(c)[1].i
        cap == CapacityAtCall(c)
    IN c.f.name = "dispense" /\ c.key # NoKey /\ IsNum(VolumeArg(c)) /\ cap # None
       => (d > 0 /\ c.vBefore <= cap[1] /\ c.vBefore + d > cap[1]
           => c.vAfter = cap[1] /\ Errors(i, "overflow") = 1)

\* C6: the volume and capacity update_well_tracking seeded for a well are
\* what the first aspirate or dispense at that well reads.
C6_SeededValuesAreRead ==
  \A i \in Intercepted :
    LET c == calls[i]
    IN c.f.name \in {"aspirate", "dispense"} /\ c.seedVol # None
         /\ (\A j \in 1..(i - 1) : calls[j].key # c.key)
       => c.vBefore = c.seedVol[1] /\ c.capRead = c.seedCap

Usage(usage, t) == Get(usage, t, 0)

\* C7: a step changes the tip usage count of a tip type only when it is a
\* wrapped pick_up_tip call of an instrument of that tip type, and then by
\* exactly 1; so no count ever decreases and drop_tip changes none.
C7_TipCountStep ==
  LET started == Len(calls') = Len(calls) + 1
      c == calls'[Len(calls')]
      pick == started /\ c.intercepted /\ c.f.name = "pick_up_tip"
              /\ c.f.self \in Instruments
  IN \A t \in (DOMAIN tip_usage) \cup (DOMAIN tip_usage')
                \cup {get_dynamic_tip_type(h) : h \in Instruments} :
       Usage(tip_usage', t) =
         Usage(tip_usage, t)
           + (IF pick /\ t = get_dynamic_tip_type(c.f.self) THEN 1 ELSE 0)

C7_TipUsageCounts == [][C7_TipCountStep]_vars

C7_Witness ==
  /\ Usage(tip_usage, get_dynamic_tip_type("p20")) = 1
  /\ Usage(tip_usage, get_dynamic_tip_type("p300")) = 1
  /\ \E i \in Intercepted : calls[i].f.name = "drop_tip"

\* C8: a call of a wrapped operation that is bound to no instrument logs
\* exactly one ERROR entry, changes neither the ledger nor the tip counter,
\* does not raise, and on completion has invoked the real operation once and
\* returned its result.
C8_UnboundCallPassesThrough ==
  \A i \in Intercepted :
    LET c == calls[i]
    IN c.f.self = NoSelf
       => /\ Cardinality(ErrorsOf(i)) = 1
          /\ Errors(i, "unbound") = 1
          /\ c.post = c.pre
          /\ c.phase # "raised"
          /\ c.phase = "returned" => PassedThrough(c)

C8_Witness ==
  \E i \in Intercepted : calls[i].f.self = NoSelf /\ calls[i].phase = "returned"

\* C9: the log has at least one entry for every intercepted call, and its
\* entries stand in the order of the calls that produced them.
C9_EveryCallLogged ==
  /\ Len(logs) >= Cardinality(Intercepted)
  /\ \A i \in Intercepted : EntriesOf(i) # {}
  /\ \A x, y \in DOMAIN logs : x < y => logs[x].call <= logs[y].call

PipettingOps == {"aspirate", "dispense", "mix", "pick_up_tip", "drop_tip", "blow_out"}

\* C10: every pipetting operation called on a handle returned by
\* wrap_instrument is intercepted.
C10_PipettingOpsIntercepted ==
  \A i \in DOMAIN calls :
    calls[i].f.self \in Instruments /\ calls[i].f.name \in PipettingOps
    => calls[i].intercepted

ActionsOf(i, event) ==
  {n \in EntriesOf(i) : logs[n].level = "ACTION" /\ logs[n].event = event}

\* C11: a call of an operation of a module wrapped by wrap_module appends
\* exactly one ACTION entry naming the operation (with its temperature),
\* appends no ERROR entry, leaves every tracked volume unchanged, does not
\* raise, and invokes the real module operation.
C11_ModuleCallLogsAndForwards ==
  \A i \in Intercepted :
    LET c == calls[i]
        temperature == KwOrArg(c.a, "temperature", 0)
    IN c.f.self \in Modules
       => /\ c.phase # "raised"
          /\ Cardinality(ActionsOf(i, c.f.name)) = 1
          /\ \A n \in ActionsOf(i, c.f.name) :
               IsNum(temperature) => logs[n].amount = temperature[1].i
          /\ ErrorsOf(i) = {}
          /\ c.post.vols = c.pre.vols
          /\ c.real = 1

NumericAssigns == {s \in DOMAIN assigns : assigns[s].value.t = "num"}

\* the aspirates / dispenses of the instrument of assignment s, of its rate
\* kind, issued after s and before the next assignment to the same rate
LaterCalls(s) ==
  {i \in Intercepted :
     /\ i > assigns[s].at
     /\ calls[i].f.self = assigns[s].h
     /\ calls[i].f.name = assigns[s].kind
     /\ ~ \E s2 \in NumericAssigns :
            /\ s2 > s /\ assigns[s2].at < i
            /\ assigns[s2].h = assigns[s].h /\ assigns[s2].kind = assigns[s].kind}

\* C12: after the script assigns a number x to rate kind k of a wrapped
\* instrument of tip type T, the rate table holds x for (T, k), an INFO
\* record names T, k and x, and every later aspirate / dispense of that
\* instrument computes its effective rate from x until the next assignment.
C12_AssignedRateIsUsed ==
  \A s \in NumericAssigns :
    LET r == assigns[s]
        T == get_dynamic_tip_type(r.h)
    IN /\ r.exc = ""
       /\ T \in DOMAIN r.post /\ r.post[T][r.kind] = r.value.i
       /\ r.info = Some([tip |-> T, kind |-> r.kind, value |-> r.value.i])
       /\ \A i \in LaterCalls(s) :
            \A n \in ActionsOf(i, calls[i].f.name) :
              logs[n].rate = get_effective_rate(r.value.i, KwOnly(calls[i].a, "rate"))

\* C13: assigning a value that is no number to a rate of a wrapped instrument
\* leaves the rate table and the readable rate unchanged, appends one ERROR
\* entry to the log, and raises nothing to the assigning script.
C13_BadRateIsReportedNotRaised ==
  \A s \in DOMAIN assigns :
    LET r == assigns[s]
    IN r.value.t # "num"
       => /\ r.post = r.pre
          /\ r.readAfter = r.readBefore
          /\ Len(r.entries) = 1 /\ HasError(r.entries)
          /\ r.exc = ""

\* the arguments of a mix call as the caller gave them:
\* mix(repetitions, volume, location, rate)
MixCallsMade == {i \in Intercepted : calls[i].f.name = "mix" /\ calls[i].f.self \in Instruments}
MixRepetitions(c) == KwOrArg(c.a, "repetitions", 0)
MixVolume(c) == KwOrArg(c.a, "volume", 1)
MixLocation(c) == KwOrArg(c.a, "location", 2)
MixMultiplier(c) == KwOrArg(c.a, "rate", 3)
MixAtWell(c) == MixLocation(c) # None /\ MixLocation(c)[1].t = "well"

\* C14: a wrapped mix call whose location is absent or has no well identity
\* logs exactly one ERROR entry and no ACTION entry, changes no ledger volume
\* and no rate entry, does not raise, and on completion has invoked the real
\* mix once and returned its result.
C14_MixWithoutWellLogsError ==
  \A i \in MixCallsMade :
    LET c == calls[i]
    IN ~MixAtWell(c)
       => /\ Cardinality(ErrorsOf(i)) = 1
          /\ EntriesOf(i) = ErrorsOf(i)
          /\ c.post.vols = c.pre.vols
          /\ c.ratesAfter = c.rates
          /\ c.phase # "raised"
          /\ c.phase = "returned" => PassedThrough(c)

C14_Witness ==
  \E i, j \in MixCallsMade :
    /\ MixLocation(calls[i]) = None /\ calls[i].phase = "returned"
    /\ MixLocation(calls[j]) # None /\ MixLocation(calls[j])[1].t = "point"
    /\ calls[j].phase = "returned"

\* C15: a wrapped mix call whose location is a well logs exactly one ACTION
\* entry carrying the call's repetitions, volume, well and rate multiplier
\* (1.0 when none is given) and no ERROR entry, whether repetitions, volume
\* and location are passed by position or by name.
C15_MixAtWellLogsAction ==
  \A i \in MixCallsMade :
    LET c == calls[i]
    IN MixAtWell(c)
       => /\ Cardinality(ActionsOf(i, "mix")) = 1
          /\ ErrorsOf(i) = {}
          /\ \A n \in ActionsOf(i, "mix") :
               /\ logs[n].params = <<MixRepetitions(c), MixVolume(c)>>
               /\ logs[n].well = WellNameOf(MixLocation(c)[1])
               /\ logs[n].rate = (IF IsNum(MixMultiplier(c))
                                  THEN MixMultiplier(c)[1].i ELSE 100)

BlowOutCallsMade ==
  {i \in Intercepted : calls[i].f.name = "blow_out" /\ calls[i].f.self \in Instruments}

\* C16: a wrapped blow_out call, with or without a location and a rate
\* multiplier, does not raise in the tracking layer: it logs an ACTION entry
\* or an ERROR entry and the real blow_out is invoked.
C16_BlowOutNeverFails ==
  \A i \in BlowOutCallsMade :
    LET c == calls[i]
    IN /\ c.phase # "raised"
       /\ EntriesOf(i) # {}
       /\ c.phase # "paused" => c.real = 1

\* C17: no intercepted call that emits an ERROR entry is suspended waiting
\* for operator input: emitting the entry never blocks the run.
C17_ErrorDoesNotSuspend ==
  \A i \in Intercepted : ErrorsOf(i) # {} => calls[i].phase # "paused"

\* the log entries call i appended, in their order
EntriesSeq(i) == SelectSeq(logs, LAMBDA e : e.call = i)

\* C18: one call of an operation wrapped twice appends exactly the log
\* entries, and leaves the ledger volumes and tip counts, that a call of the
\* singly wrapped operation appends and leaves from the same state, and it
\* invokes the real operation once.
C18_RewrappingIsIdempotent ==
  \A i \in Intercepted :
    LET c == calls[i]
    IN c.layers = 2 /\ c.phase = "returned"
       => /\ EntriesSeq(i) = c.singleApp
          /\ c.post = c.singlePost
          /\ c.real = 1

\* C19: a call of update_well_tracking with the arguments of the call before
\* it, with no aspirate or dispense in between, leaves the ledger (every
\* well's capacity and volume) as that call left it; and every call seeds
\* each well of the labware with the capacity given and with
\* overrides[well name] when the well is named in overrides, initial_volume
\* otherwise.
C19_SeedingIsIdempotent ==
  seeding # None
  => LET r == seeding[1]
     IN /\ r.again => r.post = r.pre
        /\ calls = <<>> => Ledger(well_capacity, well_volumes) = r.post
        /\ \A w \in Wells :
             w.lw = r.args.labware
             => /\ WellObjectKey(w) \in DOMAIN r.post.vols
                /\ r.post.caps[WellObjectKey(w)] = r.args.capacity
                /\ r.post.vols[WellObjectKey(w)] =
                     (IF w.name \in DOMAIN r.args.overrides
                      THEN r.args.overrides[w.name]
                      ELSE r.args.initial_volume)

C19_Witness ==
  /\ seeding # None
  /\ seeding[1].again
  /\ seeding[1].args.overrides # EmptyMap
  /\ seeding[1].args.initial_volume # 50

\* C20: when the real operation raises after the wrapper has forwarded the
\* call, the failure reaches the caller, and the ledger volumes, the tip
\* counts and the log entries of the call stay as the bookkeeping left them.
C20_NoRollbackOnRealFailure ==
  \A i \in Intercepted :
    LET c == calls[i]
    IN c.dev # ""
       => /\ c.phase = "failed" /\ c.exc = c.dev
          /\ c.real = 1 /\ c.ret = None
          /\ c.post = c.singlePost
          /\ EntriesSeq(i) = c.singleApp
          /\ i = Len(calls) => /\ well_volumes = c.post.vols
                               /\ tip_usage = c.post.tips

C20_Witness ==
  \E i, j \in Intercepted :
    /\ calls[i].dev # "" /\ calls[i].f.name = "pick_up_tip"
    /\ calls[i].post.tips # calls[i].pre.tips
    /\ calls[j].dev # "" /\ calls[j].f.name = "dispense"
    /\ calls[j].post.vols # calls[j].pre.vols

(***************************************************************************)
(* C21: bookkeeping precedes the real operation; calls are tracked in the  *)
(* order the script issues them                                            *)
(***************************************************************************)
\* the number of log entries written by the calls up to call i
LogsThrough(i) == Cardinality({n \in DOMAIN logs : logs[n].call <= i})

\* the ledger or the tip counters differ between two snapshots
Mutated(pre, post) == pre # post

\* C21: within one intercepted call the ledger update, the tip-counter
\* increment and every ACTION / ERROR entry of the call are in place when the
\* real operation is invoked; across calls the log entries stand in the order
\* of the calls, and every call starts from the ledger and the counters the
\* call before it left.
C21_BookkeepingBeforeRealOperation ==
  /\ \A i \in Intercepted :
       calls[i].real = 1 =>
         calls[i].atForward = Some(Tracking(LogsThrough(i), calls[i].post.vols,
                                            calls[i].post.tips))
  /\ \A i \in Intercepted :
       calls[i].real = 0 => calls[i].atForward = None
  /\ \A m, n \in DOMAIN logs : m < n => logs[m].call <= logs[n].call
  /\ \A i \in 1..(Len(calls) - 1) : calls[i + 1].pre = calls[i].post
  /\ calls # <<>> =>
       Snapshot(well_volumes, tip_usage) = calls[Len(calls)].post

\* two calls have run: the first changed the ledger and wrote its entries
\* before its real operation ran, the second paused in log_error and was
\* forwarded after the operator's acknowledgement
C21_Witness ==
  /\ Len(calls) >= 2
  /\ calls[1].intercepted /\ calls[1].real = 1
  /\ Mutated(calls[1].pre, calls[1].post)
  /\ EntriesOf(1) # {}
  /\ calls[2].intercepted /\ calls[2].real = 1
  /\ ErrorsOf(2) # {}
  /\ EntriesOf(2) # {}

(***************************************************************************)
(* The argument run: one wrapped pipette; aspirates and dispenses of       *)
(* negative, zero and positive volumes, and with the rate multiplier given *)
(* by position, by name and as a str                                       *)
(***************************************************************************)
SignedVolumes == {-10, 0, 20}
ArgForms ==
  { Pos(<<Num(v), WellV(A1)>>) : v \in SignedVolumes }
  \cup { Pos(<<Num(20), WellV(A1), Num(200)>>),
         Kw(<<Num(20), WellV(A1)>>, "rate", Num(200)),
         Kw(<<Num(20), WellV(A1)>>, "rate", StrV) }
ArgCalls ==
  { <<Method("p300", name), a>> : name \in {"aspirate", "dispense"}, a \in ArgForms }

NextArgs ==
  \/ WrapInstrument("p300")
  \/ \E c \in ArgCalls : CallWrapped(c[1], c[2])
  \/ PressEnter

SpecArgs == Init /\ [][NextArgs]_vars

(***************************************************************************)
(* C22: tracked volumes are never negative                                 *)
(***************************************************************************)
\* C22: in every reachable state every volume the ledger holds is at least
\* 0, whatever volumes the calls request, zero and negative ones included.
C22_VolumesNeverNegative ==
  \A k \in DOMAIN well_volumes : well_volumes[k] >= 0

(***************************************************************************)
(* C23: one ledger entry per physical well                                 *)
(***************************************************************************)
\* the aspirates and dispenses that reached the ledger: numeric volume, a
\* well or a position inside a well as the location, no exception
LedgerCallsMade ==
  {i \in Intercepted :
     /\ calls[i].f.name \in {"aspirate", "dispense"}
     /\ calls[i].exc = ""
     /\ IsNum(VolumeArg(calls[i]))
     /\ KwOrArg(calls[i].a, "location", 1) # None
     /\ KwOrArg(calls[i].a, "location", 1)[1].t \in {"well", "point"}}

\* the physical well a call is addressed to
PhysicalWell(c) == KwOrArg(c.a, "location", 1)[1].w

\* the ledger entries whose volume the call changed
ChangedKeys(c) ==
  {k \in (DOMAIN c.pre.vols) \cup (DOMAIN c.post.vols) :
     k \notin DOMAIN c.pre.vols \/ k \notin DOMAIN c.post.vols
     \/ c.pre.vols[k] # c.post.vols[k]}

\* C23: an aspirate or dispense addressed to one physical well, given as
\* the well itself or as a position inside it (well.bottom(z)), works on the
\* ledger entry of that well and changes no other entry, so that calls on
\* one well accumulate on one entry.
C23_OneEntryPerWell ==
  \A i \in LedgerCallsMade :
    /\ calls[i].key = well_key(WellV(PhysicalWell(calls[i])))
    /\ ChangedKeys(calls[i]) \subseteq {well_key(WellV(PhysicalWell(calls[i])))}

(***************************************************************************)
(* C24: the effective rate of an aspirate / dispense                       *)
(***************************************************************************)
\* the multiplier the caller supplies, as third positional argument or by name
CallerMultiplier(c) == KwOrArg(c.a, "rate", 2)

\* nominal rate times multiplier, the multiplier 1 when absent or no number
\* (hundredths, rounded as the log text rounds)
NominalTimes(base, m) ==
  IF IsNum(m) THEN (base * m[1].i + 50) \div 100 ELSE base

\* C24: the effective rate an aspirate or dispense is logged with is the
\* current nominal rate of the instrument's tip type for that action times
\* the multiplier the caller supplied, by position or by name, the multiplier
\* being 1 exactly when it is absent or not a number.
C24_EffectiveRate ==
  \A i \in Intercepted :
    calls[i].f.name \in {"aspirate", "dispense"} =>
      \A n \in ActionsOf(i, calls[i].f.name) :
        logs[n].rate = NominalTimes(calls[i].rates[logs[n].tip][calls[i].f.name],
                                    CallerMultiplier(calls[i]))

(***************************************************************************)
(* The tip-rack run: pipettes with a standard rack, with no rack and with  *)
(* a rack whose name holds no volume class, and their tracked operations   *)
(***************************************************************************)
RackPipettes == {"p20", "bare", "custom"}
RackCalls ==
  { <<Method(h, name), Pos(<<Num(20), WellV(A1)>>)>> :
      h \in {"bare", "custom"}, name \in {"aspirate", "dispense"} }
  \cup { <<Method(h, name), Pos(<<>>)>> :
           h \in RackPipettes, name \in {"pick_up_tip", "drop_tip"} }

NextRacks ==
  \/ \E h \in RackPipettes : WrapInstrument(h)
  \/ \E c \in RackCalls : CallWrapped(c[1], c[2])
  \/ PressEnter

SpecRacks == Init /\ [][NextRacks]_vars

(***************************************************************************)
(* C25: the tip type of an instrument and the sentinel                     *)
(***************************************************************************)
\* the tip type "pN"
TipClass(n) == [kind |-> "p", n |-> n]

\* the tracked operations of the pipettes that have no volume class
SentinelCalls ==
  {i \in Intercepted :
     calls[i].f.self \in {"bare", "custom"} /\ calls[i].f.name \in InstrumentOps}

\* C25: an instrument whose first tip rack's name holds a token N"ul" has
\* the tip type "pN"; an instrument with no tip rack, or whose rack name
\* holds no parseable volume class, has the tip type "unknown tip type", and
\* every later aspirate, dispense, pick_up_tip and drop_tip of it is tracked
\* under that sentinel without raising.
C25_TipTypeAndSentinel ==
  /\ get_dynamic_tip_type("p20") = TipClass(20)
  /\ get_dynamic_tip_type("p300") = TipClass(300)
  /\ get_dynamic_tip_type("bare") = UnknownTipType
  /\ get_dynamic_tip_type("custom") = UnknownTipType
  /\ \A h \in wrappedHandles \cap Pipettes :
       get_dynamic_tip_type(h) \in DOMAIN flow_rates
  /\ \A i \in SentinelCalls :
       /\ calls[i].exc = ""
       /\ EntriesOf(i) # {}
       /\ \A n \in EntriesOf(i) : logs[n].tip = UnknownTipType
       /\ calls[i].f.name = "pick_up_tip" =>
            /\ UnknownTipType \in DOMAIN calls[i].post.tips
            /\ calls[i].post.tips[UnknownTipType]
                 = Get(calls[i].pre.tips, UnknownTipType, 0) + 1
            /\ \A t \in DOMAIN calls[i].pre.tips :
                 t # UnknownTipType => calls[i].post.tips[t] = calls[i].pre.tips[t]
       /\ calls[i].phase # "paused" => calls[i].real = 1

\* both pipettes without a volume class have been used: an aspirate and a
\* pick_up_tip of one, a dispense of the other, all forwarded
C25_Witness ==
  /\ \E i \in SentinelCalls :
       calls[i].f = Method("bare", "aspirate") /\ calls[i].real = 1
  /\ \E i \in SentinelCalls :
       calls[i].f = Method("custom", "dispense") /\ calls[i].real = 1
  /\ \E i \in SentinelCalls :
       calls[i].f.name = "pick_up_tip" /\ calls[i].real = 1

(***************************************************************************)
(* C26: the rate profiles of different instruments are independent         *)
(***************************************************************************)
\* the instruments wrap_instrument has wrapped
WrappedInstruments == wrappedHandles \cap Instruments

\* the profile of tip type t is the same in two tables
SameProfile(pre, post, t) ==
  (t \in DOMAIN pre <=> t \in DOMAIN post)
  /\ (t \in DOMAIN pre => pre[t] = post[t])

\* C26: after several instruments are wrapped, the profile of each tip type
\* holds the nominal rates of its own instrument and reading a rate of an
\* instrument returns that instrument's value, and an assignment of a rate
\* on one instrument changes the profile of that instrument's tip type only.
C26_ProfilesAreIndependent ==
  /\ assigns = <<>> =>
       \A h \in WrappedInstruments :
         /\ get_dynamic_tip_type(h) \in DOMAIN flow_rates
         /\ flow_rates[get_dynamic_tip_type(h)] = NominalRate(h)
         /\ \A k \in RateKinds : ReadRate(h, k) = NominalRate(h)[k]
  /\ \A s \in NumericAssigns :
       \A t \in (DOMAIN assigns[s].pre) \cup (DOMAIN assigns[s].post) :
         t # get_dynamic_tip_type(assigns[s].h) =>
           SameProfile(assigns[s].pre, assigns[s].post, t)

(***************************************************************************)
(* C27: the amounts the log reports and the change of the ledger           *)
(***************************************************************************)
\* the one ACTION entry of call i for its operation
ActionEntry(i) == logs[CHOOSE n \in ActionsOf(i, calls[i].f.name) : TRUE]

\* min(volume, capacity - current), the capacity being the one the ledger
\* holds under the key of the call (+inf when it holds none)
WithinCapacity(volume, cap, current) ==
  IF cap = None \/ volume <= cap[1] - current THEN volume ELSE cap[1] - current

HitsShortfall(c) ==
  c.f.name = "aspirate" /\ VolumeArg(c)[1].i > c.vBefore

\* the dispense takes the well beyond the capacity held for it
HitsOverflow(c) ==
  /\ c.f.name = "dispense"
  /\ CapacityAtCall(c) # None
  /\ c.vBefore + VolumeArg(c)[1].i > CapacityAtCall(c)[1]

\* the volume the ledger is clamped to by the anomaly
ClampedVolume(c) == IF c.f.name = "aspirate" THEN 0 ELSE CapacityAtCall(c)[1]

\* C28: an aspirate that hits a shortfall and a dispense that hits an
\* overflow add exactly two entries to the log, the ACTION entry and
\* directly after it the ERROR entry, and the ledger holds the clamped
\* volume from the moment the ERROR entry is appended; a call without
\* anomaly adds exactly one ACTION entry.
C28_ActionThenError ==
  \A i \in LedgerCallsMade :
    IF HitsShortfall(calls[i]) \/ HitsOverflow(calls[i])
    THEN /\ Len(EntriesSeq(i)) = 2
         /\ EntriesSeq(i)[1].level = "ACTION"
         /\ EntriesSeq(i)[2].level = "ERROR"
         /\ \A m, n \in EntriesOf(i) : m - n \in {-1, 0, 1}
         /\ calls[i].vAfter = ClampedVolume(calls[i])
         /\ i = Len(calls) =>
              Get(well_volumes, calls[i].key, 0) = ClampedVolume(calls[i])
    ELSE /\ Len(EntriesSeq(i)) = 1
         /\ EntriesSeq(i)[1].level = "ACTION"

====
